---- MODULE Spec2Model ----
(***************************************************************************)
(* Model of fireprofile.py: the ConfigManager (a JSON file holding a list  *)
(* of profiles and an insertion-ordered domain -> profile-name mapping),   *)
(* the handlers of the configuration window, and URL mode of main().       *)
(*                                                                         *)
(* Strings are TLA+ strings; a Python dict is the sequence of its items    *)
(* <<key, value>> in insertion order; an optional value (Python None) is   *)
(* <<>> and a present value v is <<v>>.  One process runs at a time: the   *)
(* program has no coordination between processes and none is modelled.     *)
(***************************************************************************)
EXTENDS Integers, Sequences, FiniteSets, TLC

VARIABLES file, config, proc, profile_table, domain_table,
          failures, writeFailed, remembered, last

vars == <<file, config, proc, profile_table, domain_table,
          failures, writeFailed, remembered, last>>

----------------------------------------------------------------------------
(* Bounds of the model and the inputs the user can type.                   *)

MaxProfiles == 2

MaxDomains == 2

MaxFailures == 1

MaxEdits == 1

NameTexts == {"A", " B", " "}

CommandTexts == {"x", " y", ""}

Hosts == {"c", "e.c", "s.e.c", "ne.c"}

DomainTexts == {"", "c", " e.c", "s.e.c", "ne.c"}

WriteOutcomes == {"ok", "open_fails", "write_fails"}

----------------------------------------------------------------------------
(* Python values.                                                          *)

None == <<>>

Some(v) == <<v>>

RECURSIVE lstrip(_)
lstrip(s) ==
    IF Len(s) > 0 /\ SubSeq(s, 1, 1) = " " THEN lstrip(SubSeq(s, 2, Len(s))) ELSE s

RECURSIVE rstrip(_)
rstrip(s) ==
    IF Len(s) > 0 /\ SubSeq(s, Len(s), Len(s)) = " "
    THEN rstrip(SubSeq(s, 1, Len(s) - 1))
    ELSE s

strip(s) == rstrip(lstrip(s))

endswith(s, suffix) ==
    /\ Len(suffix) <= Len(s)
    /\ SubSeq(s, Len(s) - Len(suffix) + 1, Len(s)) = suffix

RECURSIVE SplitFrom(_, _, _)
SplitFrom(s, i, cur) ==
    IF i > Len(s) THEN <<cur>>
    ELSE IF SubSeq(s, i, i) = "." THEN <<cur>> \o SplitFrom(s, i + 1, "")
    ELSE SplitFrom(s, i + 1, cur \o SubSeq(s, i, i))

split(s) == SplitFrom(s, 1, "")

RECURSIVE join(_)
join(parts) ==
    IF Len(parts) = 0 THEN ""
    ELSE IF Len(parts) = 1 THEN parts[1]
    ELSE parts[1] \o "." \o join(Tail(parts))

LastTwo(parts) ==
    IF Len(parts) <= 2 THEN parts ELSE SubSeq(parts, Len(parts) - 1, Len(parts))

(* dict operations on the sequence of items *)
HasKey(d, k) == \E i \in 1..Len(d) : d[i][1] = k

KeyIndex(d, k) == CHOOSE i \in 1..Len(d) : d[i][1] = k

DictGet(d, k) == IF HasKey(d, k) THEN Some(d[KeyIndex(d, k)][2]) ELSE None

DictSet(d, k, v) ==
    IF HasKey(d, k) THEN [d EXCEPT ![KeyIndex(d, k)] = <<k, v>>] ELSE Append(d, <<k, v>>)

DictDel(d, k) ==
    LET keep(item) == item[1] # k IN SelectSeq(d, keep)

RECURSIVE Names(_)
Names(profiles) ==
    IF profiles = <<>> THEN <<>> ELSE <<profiles[1].name>> \o Names(Tail(profiles))

ItemSet(items) == {items[i] : i \in 1..Len(items)}

----------------------------------------------------------------------------
(* The backing file and ConfigManager.                                     *)

DefaultConfig == [profiles |-> <<>>, domains |-> <<>>]

AbsentFile == [state |-> "absent", data |-> DefaultConfig]

CorruptFile == [state |-> "corrupt", data |-> DefaultConfig]

(* json.dump: the object's members in the dict's order *)
JsonDump(cfg) == [state |-> "json", data |-> cfg]

(* json.load builds each object by inserting its members one after another *)
RECURSIVE ObjectFromItems(_, _)
ObjectFromItems(items, d) ==
    IF items = <<>> THEN d
    ELSE ObjectFromItems(Tail(items), DictSet(d, items[1][1], items[1][2]))

JsonLoad(f) ==
    [profiles |-> f.data.profiles, domains |-> ObjectFromItems(f.data.domains, <<>>)]

LoadRaises(f) == f.state = "corrupt"

load_config(f) == IF f.state = "absent" THEN DefaultConfig ELSE JsonLoad(f)

(* mutant: the write's exception is caught and dropped *)
save_config_swallowed(cfg, f, w) ==
    IF w = "ok" THEN [file |-> JsonDump(cfg), raised |-> FALSE]
    ELSE IF w = "open_fails" THEN [file |-> f, raised |-> FALSE]
    ELSE [file |-> CorruptFile, raised |-> FALSE]

(* open(CONFIG_FILE, 'w') truncates the file before json.dump writes it *)
save_config(cfg, f, w) ==
    IF w = "ok" THEN [file |-> JsonDump(cfg), raised |-> FALSE]
    ELSE IF w = "open_fails" THEN [file |-> f, raised |-> TRUE]
    ELSE [file |-> CorruptFile, raised |-> TRUE]

(* a method that ends with self.save_config(): `failed` is what happened  *)
(* to the write, `raised` whether the method ended with an exception       *)
Saved(cfg, f, w) ==
    LET s == save_config(cfg, f, w)
    IN  [config |-> cfg, file |-> s.file, raised |-> s.raised, wrote |-> TRUE,
         failed |-> (w # "ok")]

NotSaved(cfg, f) ==
    [config |-> cfg, file |-> f, raised |-> FALSE, wrote |-> FALSE, failed |-> FALSE]

get_profiles(cfg) == cfg.profiles

add_profile(cfg, f, name, command, w) ==
    Saved([cfg EXCEPT !.profiles = Append(@, [name |-> name, command |-> command])], f, w)

(* mutant: the domain rules of the removed profile stay *)
remove_profile_no_cascade(cfg, f, name, w) ==
    LET keepProfile(p) == p.name # name
    IN  Saved([cfg EXCEPT !.profiles = SelectSeq(@, keepProfile)], f, w)

remove_profile(cfg, f, name, w) ==
    LET keepProfile(p) == p.name # name
        keepRule(item) == item[2] # name
    IN  Saved([profiles |-> SelectSeq(cfg.profiles, keepProfile),
               domains |-> SelectSeq(cfg.domains, keepRule)], f, w)

set_domain_profile(cfg, f, domain, profile, w) ==
    Saved([cfg EXCEPT !.domains = DictSet(@, domain, profile)], f, w)

(* mutant: the rule is deleted in memory and the file is not written *)
remove_domain_unsaved(cfg, f, domain, w) ==
    NotSaved([cfg EXCEPT !.domains = DictDel(@, domain)], f)

(* mutant: `del` without the membership test raises KeyError *)
remove_domain_unguarded(cfg, f, domain, w) ==
    IF HasKey(cfg.domains, domain)
    THEN Saved([cfg EXCEPT !.domains = DictDel(@, domain)], f, w)
    ELSE [config |-> cfg, file |-> f, raised |-> TRUE, wrote |-> FALSE,
          failed |-> FALSE]

remove_domain(cfg, f, domain, w) ==
    IF HasKey(cfg.domains, domain)
    THEN Saved([cfg EXCEPT !.domains = DictDel(@, domain)], f, w)
    ELSE NotSaved(cfg, f)

----------------------------------------------------------------------------
(* URL mode's pure steps.                                                  *)

(* mutant: endswith(config_domain) without the dot *)
RECURSIVE Resolve_plain_suffix(_, _)
Resolve_plain_suffix(domains, domain) ==
    IF domains = <<>> THEN None
    ELSE IF domain = domains[1][1] \/ endswith(domain, domains[1][1])
         THEN Some(domains[1][2])
         ELSE Resolve_plain_suffix(Tail(domains), domain)

(* for config_domain, profile in domains.items(): first match, then break *)
RECURSIVE Resolve(_, _)
Resolve(domains, domain) ==
    IF domains = <<>> THEN None
    ELSE IF domain = domains[1][1] \/ endswith(domain, "." \o domains[1][1])
         THEN Some(domains[1][2])
         ELSE Resolve(Tail(domains), domain)

(* next((p for p in profiles if p["name"] == profile_name), None) *)
RECURSIVE Lookup(_, _)
Lookup(profiles, profile_name) ==
    IF profiles = <<>> THEN None
    ELSE IF profiles[1].name = profile_name THEN Some(profiles[1])
    ELSE Lookup(Tail(profiles), profile_name)

(* `if profile_name:` is false for None and for the empty string *)
Truthy(opt) == opt # None /\ opt[1] # ""

ParentDomain(domain) == join(LastTwo(split(domain)))

----------------------------------------------------------------------------
(* The configuration window's widgets.                                     *)

(* a freshly filled QComboBox shows its first item; findText selects the   *)
(* rule's profile when it is among the items                               *)
ComboCurrent(items, profile) ==
    IF profile \in ItemSet(items) THEN profile
    ELSE IF items = <<>> THEN "" ELSE items[1]

RefreshedDomainTable(cfg) ==
    [i \in 1..Len(cfg.domains) |->
        [domain |-> cfg.domains[i][1],
         current |-> ComboCurrent(Names(get_profiles(cfg)), cfg.domains[i][2])]]

(* the texts a combo box of the window offers: the profile names of the    *)
(* last refresh; an empty combo box has the current text ""               *)
ComboItems == Names(profile_table)

ComboTexts == IF ComboItems = <<>> THEN {""} ELSE ItemSet(ComboItems)

(* every text a combo box can show: a profile name, or "" *)
ComboInputs == {strip(t) : t \in NameTexts}

EditCell(t, row, col, text) ==
    [t EXCEPT ![row] = IF col = 0 THEN [@ EXCEPT !.name = text]
                                  ELSE [@ EXCEPT !.command = text]]

(* the tables the user can have on screen after editing at most k cells *)
RECURSIVE Edited(_, _)
Edited(t, k) ==
    IF k = 0 THEN {t}
    ELSE LET prev == Edited(t, k - 1)
         IN  prev
             \cup {EditCell(u, row, 0, text) :
                      u \in prev, row \in 1..Len(t), text \in NameTexts}
             \cup {EditCell(u, row, 1, text) :
                      u \in prev, row \in 1..Len(t), text \in CommandTexts}

(* mutant: `if name:` alone, a row with a blank command is kept *)
RECURSIVE ValidRows_name_only(_)
ValidRows_name_only(rows) ==
    IF rows = <<>> THEN <<>>
    ELSE LET name == strip(rows[1].name)
             command == strip(rows[1].command)
         IN  (IF name # ""
              THEN <<[name |-> name, command |-> command]>>
              ELSE <<>>) \o ValidRows_name_only(Tail(rows))

(* the loop of save_profile_changes over the table's rows *)
RECURSIVE ValidRows(_)
ValidRows(rows) ==
    IF rows = <<>> THEN <<>>
    ELSE LET name == strip(rows[1].name)
             command == strip(rows[1].command)
         IN  (IF name # "" /\ command # ""
              THEN <<[name |-> name, command |-> command]>>
              ELSE <<>>) \o ValidRows(Tail(rows))

save_profile_changes(cfg, f, rows, w) ==
    Saved([cfg EXCEPT !.profiles = ValidRows(rows)], f, w)

----------------------------------------------------------------------------------------------------------------------------------------
(* What the last handler did (observations for the properties below):      *)
(* `rule` is the item written into config["domains"], `rows` the table     *)
(* save_profile_changes read, `found` whether the target of the call       *)
(* existed (for save_profile_changes: whether every row was kept),         *)
(* `raised` whether the handler ended with an exception.                   *)

NoOp ==
    [op |-> "", name |-> "", command |-> "", domain |-> "", rule |-> None,
     rows |-> <<>>, found |-> FALSE, raised |-> FALSE, resolved |-> None, shown |-> FALSE,
     launched |-> None, prior |-> None]

Init ==
    /\ file = AbsentFile
    /\ config = DefaultConfig
    /\ proc = "none"
    /\ profile_table = <<>>
    /\ domain_table = <<>>
    /\ failures = 0
    /\ writeFailed = FALSE
    /\ remembered = None
    /\ last = NoOp

CanWrite(w) == w = "ok" \/ failures < MaxFailures

(* the effect of a ConfigManager call r on the process and the file *)
Commit(r) ==
    /\ config' = r.config
    /\ file' = r.file
    /\ failures' = IF r.failed THEN failures + 1 ELSE failures
    /\ writeFailed' = (writeFailed \/ r.failed)
    /\ remembered' = None

(* an exception leaves the handler before its refresh_tables() *)
CommitAndRefresh(r) ==
    /\ Commit(r)
    /\ profile_table' = IF r.raised THEN profile_table ELSE get_profiles(r.config)
    /\ domain_table' = IF r.raised THEN domain_table ELSE RefreshedDomainTable(r.config)

(* a warning box, or "No" in a confirmation box: nothing is called *)
Rejected ==
    /\ UNCHANGED <<file, config, profile_table, domain_table, failures,
                   writeFailed, remembered>>
    /\ last' = [NoOp EXCEPT !.op = "rejected"]

(* main(), no URL or --config: ConfigWindow() *)
LaunchConfig ==
    /\ proc = "none"
    /\ UNCHANGED <<file, failures, remembered>>
    /\ writeFailed' = FALSE
    /\ IF LoadRaises(file)
       THEN /\ UNCHANGED <<config, proc, profile_table, domain_table>>
            /\ last' = [NoOp EXCEPT !.op = "launch", !.raised = TRUE]
       ELSE /\ config' = load_config(file)
            /\ proc' = "config"
            /\ profile_table' = get_profiles(load_config(file))
            /\ domain_table' = RefreshedDomainTable(load_config(file))
            /\ last' = [NoOp EXCEPT !.op = "launch"]

(* SIGINT/SIGTERM or closing the window ends the process *)
Terminate ==
    /\ proc # "none"
    /\ proc' = "none"
    /\ config' = DefaultConfig
    /\ profile_table' = <<>>
    /\ domain_table' = <<>>
    /\ writeFailed' = FALSE
    /\ last' = [NoOp EXCEPT !.op = "terminate"]
    /\ UNCHANGED <<file, failures, remembered>>

(* ConfigWindow.add_profile *)
AddProfile(nameText, commandText, w) ==
    /\ proc = "config"
    /\ UNCHANGED proc
    /\ LET name == strip(nameText)
           command == strip(commandText)
       IN  IF name = "" \/ command = ""
           THEN w = "ok" /\ Rejected
           ELSE /\ CanWrite(w)
                /\ Len(config.profiles) < MaxProfiles
                /\ LET r == add_profile(config, file, name, command, w)
                   IN  /\ CommitAndRefresh(r)
                       /\ last' = [NoOp EXCEPT !.op = "add_profile", !.name = name,
                                     !.command = command,
                                     !.found = (Lookup(config.profiles, name) # None),
                                     !.raised = r.raised]

(* ConfigWindow.delete_profile, from the delete button of a table row *)
DeleteProfile(row, yes, w) ==
    /\ proc = "config"
    /\ UNCHANGED proc
    /\ row \in 1..Len(profile_table)
    /\ IF ~yes
       THEN w = "ok" /\ Rejected
       ELSE /\ CanWrite(w)
            /\ LET name == profile_table[row].name
                   r == remove_profile(config, file, name, w)
               IN  /\ CommitAndRefresh(r)
                   /\ last' = [NoOp EXCEPT !.op = "remove_profile", !.name = name,
                                 !.found = (Lookup(config.profiles, name) # None),
                                 !.raised = r.raised]

(* ConfigWindow.add_domain: `profile` is the current text of the combo box *)
AddDomain(domainText, profile, w) ==
    /\ proc = "config"
    /\ UNCHANGED proc
    /\ profile \in ComboTexts
    /\ LET domain == strip(domainText)
       IN  IF domain = ""
           THEN w = "ok" /\ Rejected
           ELSE /\ CanWrite(w)
                /\ HasKey(config.domains, domain) \/ Len(config.domains) < MaxDomains
                /\ LET r == set_domain_profile(config, file, domain, profile, w)
                   IN  /\ CommitAndRefresh(r)
                       /\ last' = [NoOp EXCEPT !.op = "add_domain", !.domain = domain,
                                     !.rule = Some(<<domain, profile>>),
                                     !.found = HasKey(config.domains, domain),
                                     !.raised = r.raised]

(* ConfigWindow.update_domain_profile, from currentTextChanged of a row's  *)
(* combo box: the text changed, and the tables are not refreshed           *)
UpdateDomainProfile(row, text, w) ==
    /\ proc = "config"
    /\ UNCHANGED <<proc, profile_table>>
    /\ row \in 1..Len(domain_table)
    /\ text \in ItemSet(ComboItems)
    /\ text # domain_table[row].current
    /\ CanWrite(w)
    /\ LET domain == domain_table[row].domain
           r == set_domain_profile(config, file, domain, text, w)
       IN  /\ HasKey(config.domains, domain) \/ Len(config.domains) < MaxDomains
           /\ Commit(r)
           /\ domain_table' = [domain_table EXCEPT ![row].current = text]
           /\ last' = [NoOp EXCEPT !.op = "update_domain_profile", !.domain = domain,
                         !.rule = Some(<<domain, text>>),
                         !.found = HasKey(config.domains, domain),
                         !.raised = r.raised]

(* ConfigWindow.delete_domain, from the delete button of a table row *)
DeleteDomain(row, yes, w) ==
    /\ proc = "config"
    /\ UNCHANGED proc
    /\ row \in 1..Len(domain_table)
    /\ IF ~yes
       THEN w = "ok" /\ Rejected
       ELSE /\ CanWrite(w)
            /\ LET domain == domain_table[row].domain
                   r == remove_domain(config, file, domain, w)
               IN  /\ r.wrote \/ w = "ok"
                   /\ CommitAndRefresh(r)
                   /\ last' = [NoOp EXCEPT !.op = "remove_domain", !.domain = domain,
                                 !.found = HasKey(config.domains, domain),
                                 !.raised = r.raised]

(* ConfigWindow.save_profile_changes on the table showing `rows` *)
SaveRows(rows, w) ==
    LET r == save_profile_changes(config, file, rows, w)
    IN  /\ CommitAndRefresh(r)
        /\ last' = [NoOp EXCEPT !.op = "save_profile_changes", !.rows = rows,
                      !.found = (Len(ValidRows(rows)) = Len(rows)),
                      !.raised = r.raised]

(* ConfigWindow.save_profile_changes, on the table as the user edited it *)
SaveProfileChanges(w) ==
    /\ proc = "config"
    /\ UNCHANGED proc
    /\ CanWrite(w)
    /\ \E rows \in Edited(profile_table, MaxEdits) : SaveRows(rows, w)

(* main() with a URL: `domain` is urlparse(url).netloc.  The profile       *)
(* selector offers the loaded profiles; `accepted`, `choice` and           *)
(* `remember` are what the user does with it, `w` how the write ends.      *)
UrlMode(domain, W) ==
    /\ proc = "none"
    /\ UNCHANGED <<profile_table, domain_table>>
    /\ IF LoadRaises(file)
       THEN /\ UNCHANGED <<file, config, proc, failures, writeFailed, remembered>>
            /\ last' = [NoOp EXCEPT !.op = "url", !.domain = domain, !.raised = TRUE]
       ELSE LET cfg == load_config(file)
                profile_name == Resolve(cfg.domains, domain)
                hit == IF Truthy(profile_name)
                       THEN Lookup(get_profiles(cfg), profile_name[1])
                       ELSE None
                prior == IF remembered # None /\ remembered[1].domain = domain
                         THEN Some(remembered[1].profile)
                         ELSE None
                seen == [NoOp EXCEPT !.op = "url", !.domain = domain,
                                     !.resolved = profile_name, !.prior = prior]
                items == Names(get_profiles(cfg))
                parent_domain == ParentDomain(domain)
            IN  IF hit # None
                THEN (* os.system(command + url); sys.exit(0) *)
                     /\ UNCHANGED <<file, config, proc, failures, writeFailed>>
                     /\ remembered' = None
                     /\ last' = [seen EXCEPT !.launched = Some(hit[1].command)]
                ELSE (* the profile selector *)
                     \E accepted \in BOOLEAN, remember \in BOOLEAN,
                        choice \in (IF items = <<>> THEN {""} ELSE ItemSet(items)),
                        w \in W :
                        LET profile == IF accepted
                                       THEN Lookup(get_profiles(cfg), choice)
                                       ELSE None
                            saves == /\ profile # None
                                     /\ remember
                                     /\ Len(split(domain)) > 1
                            r == IF saves
                                 THEN set_domain_profile(cfg, file, parent_domain, choice, w)
                                 ELSE NotSaved(cfg, file)
                        IN  /\ IF saves
                               THEN /\ CanWrite(w)
                                    /\ \/ HasKey(cfg.domains, parent_domain)
                                       \/ Len(cfg.domains) < MaxDomains
                               ELSE w = "ok"
                            /\ config' = r.config
                            /\ file' = r.file
                            /\ failures' = IF r.failed THEN failures + 1 ELSE failures
                            /\ writeFailed' = r.failed
                            (* an exception ends the process before os.system;   *)
                            (* otherwise it stays in app.exec() with no window   *)
                            /\ proc' = IF r.raised THEN "none" ELSE "url"
                            /\ remembered' =
                                  IF saves /\ ~r.raised /\ ~r.failed
                                  THEN Some([domain |-> domain, profile |-> choice])
                                  ELSE None
                            /\ last' = [seen EXCEPT
                                  !.shown = TRUE,
                                  !.name = IF profile # None THEN choice ELSE "",
                                  !.rule = IF saves THEN Some(<<parent_domain, choice>>)
                                                    ELSE None,
                                  !.found = saves /\ HasKey(cfg.domains, parent_domain),
                                  !.raised = r.raised,
                                  !.launched = IF profile # None /\ ~r.raised
                                               THEN Some(profile[1].command)
                                               ELSE None]

----------------------------------------------------------------------------
(* Every write succeeds.                                                   *)

OkOnly == {"ok"}

Next ==
    \/ LaunchConfig
    \/ Terminate
    \/ \E nameText \in NameTexts, commandText \in CommandTexts :
          AddProfile(nameText, commandText, "ok")
    \/ \E row \in 1..MaxProfiles, yes \in BOOLEAN : DeleteProfile(row, yes, "ok")
    \/ \E domainText \in DomainTexts, profile \in ComboInputs :
          AddDomain(domainText, profile, "ok")
    \/ \E row \in 1..MaxDomains, text \in ComboInputs :
          UpdateDomainProfile(row, text, "ok")
    \/ \E row \in 1..MaxDomains, yes \in BOOLEAN : DeleteDomain(row, yes, "ok")
    \/ SaveProfileChanges("ok")
    \/ \E domain \in Hosts : UrlMode(domain, OkOnly)

Spec == Init /\ [][Next]_vars

(* Writes can fail, at most MaxFailures times; one domain is in use.       *)

FailHosts == {"e.c", "s.e.c"}

FailDomainTexts == {"", " e.c"}

NextFail ==
    \/ LaunchConfig
    \/ Terminate
    \/ \E nameText \in NameTexts, commandText \in CommandTexts, w \in WriteOutcomes :
          AddProfile(nameText, commandText, w)
    \/ \E row \in 1..MaxProfiles, yes \in BOOLEAN, w \in WriteOutcomes :
          DeleteProfile(row, yes, w)
    \/ \E domainText \in FailDomainTexts, profile \in ComboInputs, w \in WriteOutcomes :
          AddDomain(domainText, profile, w)
    \/ \E row \in 1..MaxDomains, text \in ComboInputs, w \in WriteOutcomes :
          UpdateDomainProfile(row, text, w)
    \/ \E row \in 1..MaxDomains, yes \in BOOLEAN, w \in WriteOutcomes :
          DeleteDomain(row, yes, w)
    \/ \E w \in WriteOutcomes : SaveProfileChanges(w)
    \/ \E domain \in FailHosts : UrlMode(domain, WriteOutcomes)

SpecFail == Init /\ [][NextFail]_vars

----------------------------------------------------------------------------
(* Properties.                                                             *)

ProfileNamed(profiles, name) == \E i \in 1..Len(profiles) : profiles[i].name = name

RuleFor(domains, name) == \E i \in 1..Len(domains) : domains[i][2] = name

SuffixMatches(domains, host) ==
    {i \in 1..Len(domains) : endswith(host, "." \o domains[i][1])}

FirstSuffixMatch(domains, host) ==
    IF SuffixMatches(domains, host) = {} THEN None
    ELSE LET i == CHOOSE j \in SuffixMatches(domains, host) :
                     \A k \in SuffixMatches(domains, host) : j <= k
         IN  Some(domains[i][2])

(* every rule names a profile of the store *)
NoDanglingRule(cfg) ==
    \A i \in 1..Len(cfg.domains) : ProfileNamed(cfg.profiles, cfg.domains[i][2])

(* C1: in URL mode a host that is itself a key of the loaded mapping       *)
(* resolves to the value stored under that key, whatever parent domains    *)
(* were inserted before it.  Stated for the stores without dangling rules, *)
(* so that a violation rests on the lookup loop alone.                     *)
C1_ExactMatchPreferred ==
    [][(last'.op = "url" /\ ~LoadRaises(file)
            /\ NoDanglingRule(load_config(file))
            /\ HasKey(load_config(file).domains, last'.domain))
        => last'.resolved = DictGet(load_config(file).domains, last'.domain)]_vars

(* C2: remove_profile(name) leaves no profile and no rule with that name   *)
(* and keeps every other profile and every other rule, in order.           *)
C2_RemoveProfileCascades ==
    [][last'.op = "remove_profile" =>
        LET name == last'.name
            otherProfile(p) == p.name # name
            otherRule(item) == item[2] # name
        IN  /\ ~ProfileNamed(config'.profiles, name)
            /\ ~RuleFor(config'.domains, name)
            /\ config'.profiles = SelectSeq(config.profiles, otherProfile)
            /\ config'.domains = SelectSeq(config.domains, otherRule)]_vars

C2_Witness ==
    /\ last.op = "remove_profile"
    /\ last.found
    /\ ~last.raised
    /\ Len(config.profiles) = 1
    /\ Len(config.domains) = 1
    /\ Len(load_config(file).domains) = 1

(* C3: a host that is no key of the loaded mapping resolves to the value   *)
(* of the first key k, in insertion order, with host ending in "." + k,    *)
(* and to no profile when there is no such key.                            *)
C3_SuffixMatchFirstInOrder ==
    [][(last'.op = "url" /\ ~LoadRaises(file)
            /\ ~HasKey(load_config(file).domains, last'.domain))
        => last'.resolved = FirstSuffixMatch(load_config(file).domains, last'.domain)]_vars

C3_Witness ==
    /\ last.op = "url"
    /\ last.domain = "s.e.c"
    /\ ~last.shown
    /\ load_config(file).domains[1][1] = "c"
    /\ Len(load_config(file).domains) = 2
    /\ load_config(file).domains[2][1] = "e.c"
    /\ load_config(file).domains[1][2] # load_config(file).domains[2][2]
    /\ last.resolved = Some(load_config(file).domains[1][2])

(* C4: after the selector was accepted for host h with "remember" checked  *)
(* and the rule for profile P was saved, the next URL-mode run for h, with *)
(* no edit in between, launches P's command and shows no selector.         *)
(* Stated for the stores no rule of which carries an empty profile name,   *)
(* so that a violation does not rest on add_domain's unchecked combo text. *)
C4_RememberedChoiceSuppressesPrompt ==
    (last.op = "url" /\ last.prior # None /\ ~RuleFor(load_config(file).domains, "")) =>
        /\ ~last.shown
        /\ Lookup(load_config(file).profiles, last.prior[1]) # None
        /\ last.launched =
              Some(Lookup(load_config(file).profiles, last.prior[1])[1].command)

(* C5: after add_profile(name, command) the first profile named `name`     *)
(* has the command `command`.                                              *)
C5_AddThenLookup ==
    last.op = "add_profile" =>
        Lookup(config.profiles, last.name) =
            Some([name |-> last.name, command |-> last.command])

(* C6: while every write succeeds, loading the backing file gives the      *)
(* in-memory config of the running process.                                *)
C6_FileTracksMemory ==
    (proc # "none" /\ ~writeFailed) =>
        /\ ~LoadRaises(file)
        /\ load_config(file) = config

C6_Witness ==
    /\ proc = "config"
    /\ last.op = "remove_domain"
    /\ last.found
    /\ ~writeFailed
    /\ Len(config.profiles) = 2
    /\ Len(config.domains) = 1
    /\ file.state = "json"

(* C7, as claimed: removing a domain or a profile that does not exist      *)
(* raises nothing and leaves the profiles and the mapping as they were.    *)
C7_RemoveAbsentChangesNothing ==
    [][(last'.op \in {"remove_domain", "remove_profile"} /\ ~last'.found)
        => (~last'.raised /\ config' = config)]_vars

(* C7, amended: remove_domain of an absent domain raises nothing and       *)
(* leaves config and file as they were; remove_profile of a name no        *)
(* profile carries leaves the profile list as it was, removes exactly the  *)
(* rules whose value is that name, and rewrites the file.                  *)
C7_RemoveAbsent ==
    [][/\ (last'.op = "remove_domain" /\ ~last'.found)
            => (~last'.raised /\ config' = config /\ file' = file)
       /\ (last'.op = "remove_profile" /\ ~last'.found)
            => LET otherRule(item) == item[2] # last'.name
               IN  /\ config'.profiles = config.profiles
                   /\ config'.domains = SelectSeq(config.domains, otherRule)
                   /\ (config'.domains = config.domains
                            <=> ~RuleFor(config.domains, last'.name))
                   /\ (~last'.raised => file' = JsonDump(config'))]_vars

C7_Witness ==
    /\ last.op = "remove_profile"
    /\ ~last.found
    /\ ~last.raised
    /\ Len(config.profiles) = 1
    /\ config.domains = <<>>

(* C8: a rule written by add_domain, update_domain_profile or the          *)
(* remember-choice path names a profile that exists in the store.          *)
C8_RuleNamesExistingProfile ==
    last.rule # None => ProfileNamed(config.profiles, last.rule[1][2])

IsValidRow(p) == p.name # "" /\ p.command # ""

Trimmed(rows) ==
    [i \in 1..Len(rows) |->
        [name |-> strip(rows[i].name), command |-> strip(rows[i].command)]]

(* C9: save_profile_changes sets the profile list to the rows whose        *)
(* trimmed name and command are both non-empty, in row order, raises       *)
(* nothing for the dropped rows, and leaves the domain mapping unchanged.  *)
C9_SaveKeepsValidRows ==
    [][last'.op = "save_profile_changes" =>
          /\ config'.profiles = SelectSeq(Trimmed(last'.rows), IsValidRow)
          /\ config'.domains = config.domains
          /\ (failures' = failures => ~last'.raised)]_vars

C9_Witness ==
    /\ last.op = "save_profile_changes"
    /\ Len(last.rows) = 2
    /\ strip(last.rows[1].command) = ""
    /\ RuleFor(config.domains, last.rows[1].name)
    /\ Len(config.profiles) = 1
    /\ Len(config.domains) = 2
    /\ \E i \in 1..2 : /\ config.domains[i][2] # ""
                       /\ ~ProfileNamed(config.profiles, config.domains[i][2])

Attempted(cfg, f, obs) ==
    IF obs.op = "add_profile"
    THEN [cfg EXCEPT !.profiles = Append(@, [name |-> obs.name, command |-> obs.command])]
    ELSE IF obs.op = "remove_profile"
    THEN LET otherProfile(p) == p.name # obs.name
             otherRule(item) == item[2] # obs.name
         IN  [profiles |-> SelectSeq(cfg.profiles, otherProfile),
              domains |-> SelectSeq(cfg.domains, otherRule)]
    ELSE IF obs.op = "remove_domain"
    THEN [cfg EXCEPT !.domains = DictDel(@, obs.domain)]
    ELSE IF obs.op \in {"add_domain", "update_domain_profile"}
    THEN [cfg EXCEPT !.domains = DictSet(@, obs.rule[1][1], obs.rule[1][2])]
    ELSE IF obs.op = "url"
    THEN [load_config(f) EXCEPT !.domains = DictSet(@, obs.rule[1][1], obs.rule[1][2])]
    ELSE cfg

(* C10: when the write of add_profile, remove_profile, set_domain_profile  *)
(* or remove_domain fails, the call ends with the exception and the        *)
(* in-memory config is the attempted new state.                            *)
C10_FailedWriteRaisesAndKeepsMutation ==
    [][(failures' > failures /\ last'.op # "save_profile_changes")
        => (last'.raised /\ config' = Attempted(config, file, last'))]_vars

C10_Witness ==
    /\ last.op = "remove_profile"
    /\ last.raised
    /\ last.found
    /\ proc = "config"
    /\ Len(profile_table) = 2
    /\ Len(config.profiles) = 1
    /\ file.state = "json"
    /\ Len(load_config(file).profiles) = 2

====
